---------------------------- MODULE Spec2Model ----------------------------
(***************************************************************************)
(* Model of the NFT metadata extractor (src/main.py, the JSON-RPC variant, *)
(* and src/nft_extractor.py, the REST variant): fetch, filter by year,     *)
(* flatten, export to CSV.                                                 *)
(*                                                                         *)
(* Python strings are sequences of one-character strings, so that the      *)
(* regular expressions, str.strip, str.replace and sorted() are computed   *)
(* character by character.  JSON values are tagged records.                *)
(***************************************************************************)
EXTENDS Integers, Sequences, FiniteSets, TLC

VARIABLES
    pc,              \* position in main() / in the function under test
    variant,         \* "rpc" (main.py) or "rest" (nft_extractor.py)
    entry,           \* the function the run was started at
    text,            \* sanitisation: the string handed to the expression
    clean_trait,     \* sanitisation: its result
    clean_again,     \* sanitisation: the result sanitised once more
    nft,             \* flatten_metadata: its argument
    flattened,       \* flatten_metadata: its outcome
    asset_ids,       \* main.py: ids returned by get_assets_by_owner
    idx,             \* main.py: position of the detail loop in asset_ids
    all_nfts,        \* the fetched records (nfts in nft_extractor.py)
    filtered_nfts,   \* result of filter_nfts_by_year
    flattened_nfts,  \* export_to_csv: rows flattened so far
    all_fields,      \* export_to_csv: union of the rows' keys so far
    fieldnames,      \* export_to_csv: the sorted header
    csvfile,         \* the file on disk
    filename,        \* value returned by export_to_csv
    st,              \* streamlit calls made: errors, warnings, successes
    http             \* requests issued and how each ended

vars == <<pc, variant, entry, text, clean_trait, clean_again, nft, flattened,
          asset_ids, idx, all_nfts, filtered_nfts, flattened_nfts,
          all_fields, fieldnames, csvfile, filename, st, http>>

envVars      == <<variant, entry>>
sanitizeVars == <<text, clean_trait, clean_again>>
flattenVars  == <<nft, flattened>>
fetchVars    == <<asset_ids, idx, all_nfts, http>>
exportVars   == <<flattened_nfts, all_fields, fieldnames, csvfile, filename>>

-----------------------------------------------------------------------------
(* Characters and strings *)

\* Code points of the characters the model uses (sorted() and the regular
\* expressions read them).
Ascii ==
    ("\t" :> 9) @@ (" " :> 32) @@ ("!" :> 33) @@ ("\"" :> 34) @@
    ("'" :> 39) @@ ("," :> 44) @@ ("-" :> 45) @@ (":" :> 58) @@
    ("0" :> 48) @@ ("1" :> 49) @@ ("2" :> 50) @@ ("3" :> 51) @@
    ("4" :> 52) @@ ("5" :> 53) @@ ("6" :> 54) @@ ("7" :> 55) @@
    ("8" :> 56) @@ ("9" :> 57) @@ ("A" :> 65) @@ ("B" :> 66) @@
    ("C" :> 67) @@ ("D" :> 68) @@ ("E" :> 69) @@ ("F" :> 70) @@
    ("G" :> 71) @@ ("H" :> 72) @@ ("I" :> 73) @@ ("J" :> 74) @@
    ("K" :> 75) @@ ("L" :> 76) @@ ("M" :> 77) @@ ("N" :> 78) @@
    ("O" :> 79) @@ ("P" :> 80) @@ ("Q" :> 81) @@ ("R" :> 82) @@
    ("S" :> 83) @@ ("T" :> 84) @@ ("U" :> 85) @@ ("V" :> 86) @@
    ("W" :> 87) @@ ("X" :> 88) @@ ("Y" :> 89) @@ ("Z" :> 90) @@
    ("[" :> 91) @@ ("]" :> 93) @@ ("_" :> 95) @@ ("a" :> 97) @@
    ("b" :> 98) @@ ("c" :> 99) @@ ("d" :> 100) @@ ("e" :> 101) @@
    ("f" :> 102) @@ ("g" :> 103) @@ ("h" :> 104) @@ ("i" :> 105) @@
    ("j" :> 106) @@ ("k" :> 107) @@ ("l" :> 108) @@ ("m" :> 109) @@
    ("n" :> 110) @@ ("o" :> 111) @@ ("p" :> 112) @@ ("q" :> 113) @@
    ("r" :> 114) @@ ("s" :> 115) @@ ("t" :> 116) @@ ("u" :> 117) @@
    ("v" :> 118) @@ ("w" :> 119) @@ ("x" :> 120) @@ ("y" :> 121) @@
    ("z" :> 122) @@ ("{" :> 123) @@ ("}" :> 125)

\* [0-9]
IsDigit(c) == Ascii[c] >= 48 /\ Ascii[c] <= 57

\* \w : letters, digits and the underscore
IsWord(c) ==
    \/ IsDigit(c)
    \/ Ascii[c] >= 65 /\ Ascii[c] <= 90
    \/ Ascii[c] >= 97 /\ Ascii[c] <= 122
    \/ c = "_"

\* \s, and the characters str.strip() removes
IsSpace(c) == Ascii[c] \in {9, 10, 11, 12, 13, 28, 29, 30, 31, 32}

\* All strings over alphabet A of length at most n.
StringsUpTo(A, n) == UNION {[1..k -> A] : k \in 0..n}

\* re.sub(r'[^\w\s-]', '', s)
ReSubDisallowed(s) ==
    SelectSeq(s, LAMBDA c : IsWord(c) \/ IsSpace(c) \/ c = "-")

RECURSIVE LStrip(_)
LStrip(s) ==
    IF s # <<>> /\ IsSpace(Head(s)) THEN LStrip(Tail(s)) ELSE s

RECURSIVE RStrip(_)
RStrip(s) ==
    IF s # <<>> /\ IsSpace(s[Len(s)])
    THEN RStrip(SubSeq(s, 1, Len(s) - 1))
    ELSE s

\* s.strip()
Strip(s) == RStrip(LStrip(s))

\* s.replace(' ', '_') with every whitespace run collapsed to one underscore
\* (what a re.sub(r'\s+', '_', s) would do).
RECURSIVE CollapseRuns(_)
CollapseRuns(s) ==
    IF s = <<>> THEN <<>>
    ELSE IF IsSpace(Head(s))
         THEN <<"_">> \o CollapseRuns(LStrip(s))
         ELSE <<Head(s)>> \o CollapseRuns(Tail(s))

\* s.replace(' ', '_')
ReplaceSpaces(s) == [k \in 1..Len(s) |-> IF s[k] = " " THEN "_" ELSE s[k]]

\* strip() applied before the re.sub instead of after it
SanitizeStripFirst(s) == ReplaceSpaces(ReSubDisallowed(Strip(s)))

\* re.sub(r'[^\w\s-]', '', s).strip().replace(' ', '_')
Sanitize(s) == ReplaceSpaces(Strip(ReSubDisallowed(s)))

-----------------------------------------------------------------------------
(* String literals of the source, as character sequences *)

\* dictionary keys read by the code
K_id == <<"i", "d">>
K_ownership == <<"o", "w", "n", "e", "r", "s", "h", "i", "p">>
K_owner == <<"o", "w", "n", "e", "r">>
K_frozen == <<"f", "r", "o", "z", "e", "n">>
K_delegated == <<"d", "e", "l", "e", "g", "a", "t", "e", "d">>
K_content == <<"c", "o", "n", "t", "e", "n", "t">>
K_metadata == <<"m", "e", "t", "a", "d", "a", "t", "a">>
K_name == <<"n", "a", "m", "e">>
K_symbol == <<"s", "y", "m", "b", "o", "l">>
K_description == <<"d", "e", "s", "c", "r", "i", "p", "t", "i", "o", "n">>
K_image == <<"i", "m", "a", "g", "e">>
K_animation_url ==
    <<"a", "n", "i", "m", "a", "t", "i", "o", "n", "_", "u", "r", "l">>
K_external_url ==
    <<"e", "x", "t", "e", "r", "n", "a", "l", "_", "u", "r", "l">>
K_attributes == <<"a", "t", "t", "r", "i", "b", "u", "t", "e", "s">>
K_trait_type == <<"t", "r", "a", "i", "t", "_", "t", "y", "p", "e">>
K_value == <<"v", "a", "l", "u", "e">>
K_grouping == <<"g", "r", "o", "u", "p", "i", "n", "g">>
K_group_key == <<"g", "r", "o", "u", "p", "_", "k", "e", "y">>
K_group_value == <<"g", "r", "o", "u", "p", "_", "v", "a", "l", "u", "e">>
K_royalty == <<"r", "o", "y", "a", "l", "t", "y">>
K_percent == <<"p", "e", "r", "c", "e", "n", "t">>
K_locked == <<"l", "o", "c", "k", "e", "d">>
K_supply == <<"s", "u", "p", "p", "l", "y">>
K_print_max_supply ==
    <<"p", "r", "i", "n", "t", "_", "m", "a", "x", "_", "s", "u", "p", "p",
    "l", "y">>
K_print_current_supply ==
    <<"p", "r", "i", "n", "t", "_", "c", "u", "r", "r", "e", "n", "t", "_",
    "s", "u", "p", "p", "l", "y">>
K_edition_nonce ==
    <<"e", "d", "i", "t", "i", "o", "n", "_", "n", "o", "n", "c", "e">>
K_title == <<"t", "i", "t", "l", "e">>

\* column names that are not also keys
C_mint_address ==
    <<"m", "i", "n", "t", "_", "a", "d", "d", "r", "e", "s", "s">>
C_collection_address ==
    <<"c", "o", "l", "l", "e", "c", "t", "i", "o", "n", "_", "a", "d", "d",
    "r", "e", "s", "s">>
C_royalty_percent ==
    <<"r", "o", "y", "a", "l", "t", "y", "_", "p", "e", "r", "c", "e", "n",
    "t">>
C_royalty_locked ==
    <<"r", "o", "y", "a", "l", "t", "y", "_", "l", "o", "c", "k", "e", "d">>
C_supply_print_max_supply ==
    <<"s", "u", "p", "p", "l", "y", "_", "p", "r", "i", "n", "t", "_", "m",
    "a", "x", "_", "s", "u", "p", "p", "l", "y">>
C_supply_print_current_supply ==
    <<"s", "u", "p", "p", "l", "y", "_", "p", "r", "i", "n", "t", "_", "c",
    "u", "r", "r", "e", "n", "t", "_", "s", "u", "p", "p", "l", "y">>
C_supply_edition_nonce ==
    <<"s", "u", "p", "p", "l", "y", "_", "e", "d", "i", "t", "i", "o", "n",
    "_", "n", "o", "n", "c", "e">>

\* prefixes and other literals
P_trait == <<"t", "r", "a", "i", "t", "_">>
P_metadata == <<"m", "e", "t", "a", "d", "a", "t", "a", "_">>
P_attribute == <<"a", "t", "t", "r", "i", "b", "u", "t", "e", "_">>
P_metadata_file ==
    <<"n", "f", "t", "_", "m", "e", "t", "a", "d", "a", "t", "a", "_">>
S_collection == <<"c", "o", "l", "l", "e", "c", "t", "i", "o", "n">>
S_True == <<"T", "r", "u", "e">>
S_False == <<"F", "a", "l", "s", "e">>
S_None == <<"N", "o", "n", "e">>
S_true == <<"t", "r", "u", "e">>
S_false == <<"f", "a", "l", "s", "e">>
S_null == <<"n", "u", "l", "l">>

-----------------------------------------------------------------------------
(* JSON values as Python sees them *)

JNull       == [t |-> "null"]
JStr(s)     == [t |-> "str", s |-> s]
JInt(n)     == [t |-> "int", n |-> n]
JBool(b)    == [t |-> "bool", b |-> b]
JList(xs)   == [t |-> "list", items |-> xs]
\* a dict keeps its entries in insertion order
JDict(kvs)  == [t |-> "dict", items |-> kvs]
KV(k, v)   == [key |-> k, val |-> v]

EmptyStr   == JStr(<<>>)
EmptyDict  == JDict(<<>>)
EmptyList  == JList(<<>>)

\* isinstance(v, dict), isinstance(v, list)
IsDict(v) == v.t = "dict"
IsList(v) == v.t = "list"

\* key in d
HasKey(d, k) == \E j \in 1..Len(d.items) : d.items[j].key = k

\* d.get(k, default)
Get(d, k, default) ==
    IF HasKey(d, k)
    THEN d.items[CHOOSE j \in 1..Len(d.items) : d.items[j].key = k].val
    ELSE default

\* Python truthiness of the values a name can take
Truthy(v) ==
    CASE v.t = "null" -> FALSE
      [] v.t = "str"  -> v.s # <<>>
      [] v.t = "int"  -> v.n # 0
      [] v.t = "bool" -> v.b
      [] OTHER        -> v.items # <<>>

\* a or b
Or(a, b) == IF Truthy(a) THEN a ELSE b

\* decimal digits of a natural number
RECURSIVE DecStr(_)
DecStr(n) ==
    LET d == <<"0", "1", "2", "3", "4", "5", "6", "7", "8", "9">>
    IN  IF n < 10 THEN <<d[n + 1]>> ELSE DecStr(n \div 10) \o <<d[(n % 10) + 1]>>

\* ", ".join(parts)
RECURSIVE Join(_)
Join(parts) ==
    IF parts = <<>> THEN <<>>
    ELSE IF Len(parts) = 1 THEN parts[1]
    ELSE parts[1] \o <<",", " ">> \o Join(Tail(parts))

\* json.dumps(v), default separators
RECURSIVE JsonDumps(_)
JsonDumps(v) ==
    CASE v.t = "null" -> S_null
      [] v.t = "str"  -> <<"\"">> \o v.s \o <<"\"">>
      [] v.t = "int"  -> DecStr(v.n)
      [] v.t = "bool" -> IF v.b THEN S_true ELSE S_false
      [] v.t = "list" ->
            <<"[">> \o Join([j \in 1..Len(v.items) |-> JsonDumps(v.items[j])])
                    \o <<"]">>
      [] v.t = "dict" ->
            <<"{">> \o Join([j \in 1..Len(v.items) |->
                               <<"\"">> \o v.items[j].key \o <<"\"", ":", " ">>
                                 \o JsonDumps(v.items[j].val)])
                    \o <<"}">>

\* repr(v)
RECURSIVE PyRepr(_)
PyRepr(v) ==
    CASE v.t = "null" -> S_None
      [] v.t = "str"  -> <<"'">> \o v.s \o <<"'">>
      [] v.t = "int"  -> DecStr(v.n)
      [] v.t = "bool" -> IF v.b THEN S_True ELSE S_False
      [] v.t = "list" ->
            <<"[">> \o Join([j \in 1..Len(v.items) |-> PyRepr(v.items[j])])
                    \o <<"]">>
      [] v.t = "dict" ->
            <<"{">> \o Join([j \in 1..Len(v.items) |->
                               <<"'">> \o v.items[j].key \o <<"'", ":", " ">>
                                 \o PyRepr(v.items[j].val)])
                    \o <<"}">>

\* str(v)
PyStr(v) == IF v.t = "str" THEN v.s ELSE PyRepr(v)

-----------------------------------------------------------------------------
(* flatten_metadata *)

\* flattened[k] = v
Put(row, k, v) ==
    [c \in (DOMAIN row) \cup {k} |-> IF c = k THEN v ELSE row[c]]

\* what a propagated exception leaves: no row
Raised == [raised |-> TRUE, row |-> <<>>]
Returned(row) == [raised |-> FALSE, row |-> row]

\* f'attribute_{i}' with i counted from one
DefaultTraitTypeOneBased(i) == JStr(P_attribute \o DecStr(i + 1))

\* f'attribute_{i}', the default of attr.get('trait_type', ...)
DefaultTraitType(i) == JStr(P_attribute \o DecStr(i))

\* f'trait_{clean_trait}'
TraitColumn(trait_type) == P_trait \o Sanitize(PyStr(trait_type))

\* f'metadata_{clean_key}'
MetadataColumn(key) == P_metadata \o Sanitize(key)

\* the first write to a column wins
PutIfAbsent(row, k, v) == IF k \in DOMAIN row THEN row ELSE Put(row, k, v)

\* flattened[f'trait_{clean_trait}'] = value
PutTrait(row, k, v) == Put(row, k, v)

\* for i, attr in enumerate(attributes): ...   (j = i + 1)
RECURSIVE AttributesLoop(_, _, _)
AttributesLoop(row, attributes, j) ==
    IF j > Len(attributes) THEN row
    ELSE LET attr == attributes[j]
         IN  IF IsDict(attr)
             THEN LET trait_type == Get(attr, K_trait_type, DefaultTraitType(j - 1))
                      value      == Get(attr, K_value, EmptyStr)
                  IN  AttributesLoop(PutTrait(row, TraitColumn(trait_type), value),
                                     attributes, j + 1)
             ELSE AttributesLoop(row, attributes, j + 1)

\* What "for group in grouping" iterates over: the items of a list, the keys
\* of a dict, the characters of a string.
Iterable(v) == v.t \in {"list", "dict", "str"}
IterItems(v) ==
    CASE v.t = "list" -> v.items
      [] v.t = "dict" -> [j \in 1..Len(v.items) |-> JStr(v.items[j].key)]
      [] v.t = "str"  -> [j \in 1..Len(v.s) |-> JStr(<<v.s[j]>>)]

\* for group in grouping: if group.get('group_key') == 'collection': ...; break
RECURSIVE GroupingLoop(_, _)
GroupingLoop(groups, j) ==
    IF j > Len(groups) THEN [raised |-> FALSE, found |-> FALSE, value |-> JNull]
    ELSE LET group == groups[j]
         IN  IF ~IsDict(group)
             THEN [raised |-> TRUE, found |-> FALSE, value |-> JNull]
             ELSE IF Get(group, K_group_key, JNull) = JStr(S_collection)
             THEN [raised |-> FALSE, found |-> TRUE,
                   value |-> Get(group, K_group_value, EmptyStr)]
             ELSE GroupingLoop(groups, j + 1)

\* keys of metadata that the last loop skips
ConsumedKeys ==
    {K_name, K_symbol, K_description, K_image, K_animation_url,
     K_external_url, K_attributes}

\* for key, value in metadata.items(): ...
RECURSIVE ResidualLoop(_, _, _)
ResidualLoop(row, items, j) ==
    IF j > Len(items) THEN row
    ELSE LET key   == items[j].key
             value == items[j].val
         IN  IF key \notin ConsumedKeys
             THEN ResidualLoop(
                    Put(row, MetadataColumn(key),
                        JStr(IF IsDict(value) \/ IsList(value)
                             THEN JsonDumps(value) ELSE PyStr(value))),
                    items, j + 1)
             ELSE ResidualLoop(row, items, j + 1)

\* NFTMetadataExtractor.flatten_metadata(nft); the same text in both files.
\* x.get(...) on a value that is not a dict raises AttributeError, and
\* iterating a value that is not iterable raises TypeError.
flatten_metadata(n) ==
    LET ownership == Get(n, K_ownership, EmptyDict)
        content   == Get(n, K_content, EmptyDict)
        grouping  == Get(n, K_grouping, EmptyList)
        royalty   == Get(n, K_royalty, EmptyDict)
        supply    == Get(n, K_supply, EmptyDict)
    IN
    IF ~IsDict(ownership) \/ ~IsDict(content) THEN Raised
    ELSE
    LET metadata == Get(content, K_metadata, EmptyDict) IN
    IF ~IsDict(metadata) THEN Raised
    ELSE
    LET row0 ==
            (C_mint_address :> Get(n, K_id, EmptyStr))
         @@ (K_owner :> Get(ownership, K_owner, EmptyStr))
         @@ (K_frozen :> Get(ownership, K_frozen, JBool(FALSE)))
         @@ (K_delegated :> Get(ownership, K_delegated, JBool(FALSE)))
         @@ (K_name :> Get(metadata, K_name, EmptyStr))
         @@ (K_symbol :> Get(metadata, K_symbol, EmptyStr))
         @@ (K_description :> Get(metadata, K_description, EmptyStr))
         @@ (K_image :> Get(metadata, K_image, EmptyStr))
         @@ (K_animation_url :> Get(metadata, K_animation_url, EmptyStr))
         @@ (K_external_url :> Get(metadata, K_external_url, EmptyStr))
        attributes == Get(metadata, K_attributes, EmptyList)
        row1 == IF IsList(attributes)
                THEN AttributesLoop(row0, attributes.items, 1)
                ELSE row0
    IN
    IF ~Iterable(grouping) THEN Raised
    ELSE
    LET g == GroupingLoop(IterItems(grouping), 1) IN
    IF g.raised \/ ~IsDict(royalty) \/ ~IsDict(supply) THEN Raised
    ELSE
    LET row2 == IF g.found THEN Put(row1, C_collection_address, g.value) ELSE row1
        row3 == Put(row2, C_royalty_percent, Get(royalty, K_percent, JInt(0)))
        row4 == Put(row3, C_royalty_locked, Get(royalty, K_locked, JBool(FALSE)))
        row5 == Put(row4, C_supply_print_max_supply,
                    Get(supply, K_print_max_supply, JInt(0)))
        row6 == Put(row5, C_supply_print_current_supply,
                    Get(supply, K_print_current_supply, JInt(0)))
        row7 == Put(row6, C_supply_edition_nonce,
                    Get(supply, K_edition_nonce, EmptyStr))
    IN  Returned(ResidualLoop(row7, metadata.items, 1))

-----------------------------------------------------------------------------
(* Values of the variables a specification does not use *)

NoFile == [exists |-> FALSE, header |-> <<>>, rows |-> <<>>]
NoCall == [raised |-> FALSE, row |-> <<>>]

SanitizeIdle == text = <<>> /\ clean_trait = <<>> /\ clean_again = <<>>
FlattenIdle  == nft = EmptyDict /\ flattened = NoCall
FetchIdle    == asset_ids = <<>> /\ idx = 0 /\ all_nfts = <<>> /\ http = <<>>
ExportIdle   ==
    /\ flattened_nfts = <<>>
    /\ all_fields = {}
    /\ fieldnames = <<>>
    /\ csvfile = NoFile
    /\ filename = JNull

-----------------------------------------------------------------------------
(* Sanitisation of trait names and metadata keys, applied to bounded input *)

MaxTextLen == 4
SanitizeAlphabet == {"a", "_", "-", " ", "\t", "!"}

InitSanitize ==
    /\ pc = "sanitize"
    /\ variant \in {"rpc", "rest"}
    /\ entry = "sanitize"
    /\ text \in StringsUpTo(SanitizeAlphabet, MaxTextLen)
    /\ clean_trait = <<>>
    /\ clean_again = <<>>
    /\ FlattenIdle /\ FetchIdle /\ ExportIdle
    /\ filtered_nfts = <<>>
    /\ st = <<>>

\* clean_trait = re.sub(r'[^\w\s-]', '', str(trait_type)).strip().replace(' ', '_')
SanitizeCall ==
    /\ pc = "sanitize"
    /\ clean_trait' = Sanitize(text)
    /\ pc' = "sanitized"
    /\ UNCHANGED <<envVars, text, clean_again, flattenVars, fetchVars,
                   filtered_nfts, exportVars, st>>

\* the same expression applied to its own result
SanitizeAgain ==
    /\ pc = "sanitized"
    /\ clean_again' = Sanitize(clean_trait)
    /\ pc' = "resanitized"
    /\ UNCHANGED <<envVars, text, clean_trait, flattenVars, fetchVars,
                   filtered_nfts, exportVars, st>>

NextSanitize == SanitizeCall \/ SanitizeAgain

SpecSanitize == InitSanitize /\ [][NextSanitize]_vars

-----------------------------------------------------------------------------
(* Bounded input records *)

\* a key left out of a record
Absent == [t |-> "absent"]
\* the dict with the given entries, those marked Absent left out
MkDict(kvs) == JDict(SelectSeq(kvs, LAMBDA e : e.val # Absent))

\* all sequences over S of length at most n
SeqsUpTo(S, n) == UNION {[1..k -> S] : k \in 0..n}
\* those without a repeated key
DistinctKeys(kvs) ==
    \A a, b \in 1..Len(kvs) : a # b => kvs[a].key # kvs[b].key

MaxAttrs == 3
MaxExtra == 2

\* trait types: two that sanitise to the same name, one equal to the default
\* of index 1, one equal to a fixed column's name
TraitTypes ==
    {Absent, JStr(<<"a", " ", "b">>), JStr(<<"a", "_", "b">>),
     JStr(P_attribute \o <<"1">>), JStr(K_name)}
TraitValues == {JStr(<<"x">>), JStr(<<"y">>)}
AttrEntries ==
    {MkDict(<<KV(K_trait_type, tt), KV(K_value, v)>>) :
        tt \in TraitTypes, v \in TraitValues}
    \cup {JStr(<<"z">>)}
AttrLists == SeqsUpTo(AttrEntries, MaxAttrs)

\* extra metadata keys: two that sanitise to the same name
ExtraKeys   == {<<"k", "!">>, <<"k">>}
ExtraValues == {JStr(<<"v">>), JDict(<<KV(<<"a">>, JInt(1))>>)}
ExtraLists ==
    {kvs \in SeqsUpTo({KV(k, v) : k \in ExtraKeys, v \in ExtraValues}, MaxExtra) :
        DistinctKeys(kvs)}

S_m1     == <<"m", "1">>
S_wallet == <<"w">>
S_relic  == <<"1", "9", "9", "9", " ", "R", "e", "l", "i", "c">>
S_coll   == <<"c", "1">>

\* a well-formed record around the given attributes and extra metadata
AssetWith(attrs, extras) ==
    JDict(<<
        KV(K_id, JStr(S_m1)),
        KV(K_ownership, JDict(<<KV(K_owner, JStr(S_wallet)),
                                KV(K_frozen, JBool(TRUE))>>)),
        KV(K_content, JDict(<<
            KV(K_metadata, JDict(<<KV(K_name, JStr(S_relic)),
                                   KV(K_attributes, JList(attrs))>> \o extras))>>)),
        KV(K_grouping, JList(<<
            JDict(<<KV(K_group_key, JStr(S_collection)),
                    KV(K_group_value, JStr(S_coll))>>)>>)),
        KV(K_royalty, JDict(<<KV(K_percent, JInt(5))>>))
    >>)

\* records whose data-dependent columns vary
TraitAssets == {AssetWith(a, e) : a \in AttrLists, e \in ExtraLists}

\* shapes of the nested fields: missing, well-formed, or of another type
OwnershipShapes == {Absent, JNull, JDict(<<KV(K_owner, JStr(S_wallet))>>)}
MetadataShapes ==
    {Absent, JNull, JStr(<<"x">>), EmptyDict,
     JDict(<<KV(K_name, JStr(S_relic))>>),
     JDict(<<KV(K_name, JStr(S_relic)), KV(K_attributes, JNull)>>),
     JDict(<<KV(K_name, JStr(S_relic)),
             KV(K_attributes, JList(<<JNull, JDict(<<KV(K_value, JInt(7))>>)>>))>>)}
ContentShapes ==
    {Absent, JNull} \cup {MkDict(<<KV(K_metadata, m)>>) : m \in MetadataShapes}
GroupingShapes ==
    {Absent, JNull, EmptyStr, EmptyList, JList(<<JNull>>),
     JList(<<JDict(<<KV(K_group_key, JStr(S_collection)),
                     KV(K_group_value, JStr(S_coll))>>), JNull>>)}
RoyaltyShapes == {Absent, JNull, JDict(<<KV(K_percent, JInt(5))>>)}
SupplyShapes  == {Absent, JList(<<>>), JDict(<<KV(K_edition_nonce, JInt(2))>>)}

ShapeAssets ==
    {MkDict(<<KV(K_id, JStr(S_m1)), KV(K_ownership, o), KV(K_content, c),
              KV(K_grouping, g), KV(K_royalty, r), KV(K_supply, s)>>) :
        o \in OwnershipShapes, c \in ContentShapes, g \in GroupingShapes,
        r \in RoyaltyShapes, s \in SupplyShapes}

-----------------------------------------------------------------------------
(* flatten_metadata applied to bounded input *)

\* flatten_metadata has the same text in both variants; one is enough here
InitFlatten ==
    /\ pc = "flatten"
    /\ variant = "rpc"
    /\ entry = "flatten_metadata"
    /\ nft \in TraitAssets \cup ShapeAssets
    /\ flattened = NoCall
    /\ SanitizeIdle /\ FetchIdle /\ ExportIdle
    /\ filtered_nfts = <<>>
    /\ st = <<>>

\* flattened = self.flatten_metadata(nft)
FlattenCall ==
    /\ pc = "flatten"
    /\ flattened' = flatten_metadata(nft)
    /\ pc' = "flattened"
    /\ UNCHANGED <<envVars, nft, sanitizeVars, fetchVars, filtered_nfts,
                   exportVars, st>>

NextFlatten == FlattenCall

SpecFlatten == InitFlatten /\ [][NextFlatten]_vars

-----------------------------------------------------------------------------
(* Properties of flatten_metadata *)

TenFields ==
    {C_mint_address, K_owner, K_frozen, K_delegated, K_name, K_symbol,
     K_description, K_image, K_animation_url, K_external_url}

FixedColumns ==
    TenFields \cup
    {C_collection_address, C_royalty_percent, C_royalty_locked,
     C_supply_print_max_supply, C_supply_print_current_supply,
     C_supply_edition_nonce}

\* the argument's metadata and its attributes, when they are well-formed
MetadataOf(n) == Get(Get(n, K_content, EmptyDict), K_metadata, EmptyDict)
AttributesOf(n) ==
    LET a == Get(MetadataOf(n), K_attributes, EmptyList)
    IN  IF IsList(a) THEN a.items ELSE <<>>
WellFormedMetadata(n) ==
    /\ IsDict(Get(n, K_content, EmptyDict))
    /\ IsDict(MetadataOf(n))

\* attribute entries that are dicts without a trait_type
Untyped(n) ==
    {j \in 1..Len(AttributesOf(n)) :
        /\ IsDict(AttributesOf(n)[j])
        /\ ~HasKey(AttributesOf(n)[j], K_trait_type)}

FlattenReturned == pc = "flattened" /\ ~flattened.raised

\* C1 (as claimed): flatten_metadata never raises, whatever the nested
\* fields are, and the row it returns has the ten unconditional fields.
C1_TotalOnEveryRecord ==
    pc = "flattened" =>
        /\ ~flattened.raised
        /\ TenFields \subseteq DOMAIN flattened.row

\* C6 (as claimed): a dict entry without trait_type at zero-based index i
\* yields a column named attribute_<i>.
C6_AttributeIndexColumn ==
    (FlattenReturned /\ WellFormedMetadata(nft)) =>
        \A j \in Untyped(nft) :
            (P_attribute \o DecStr(j - 1)) \in DOMAIN flattened.row

\* entries after position j that are written to column c
LaterWriters(n, j, c) ==
    {k \in (j + 1)..Len(AttributesOf(n)) :
        /\ IsDict(AttributesOf(n)[k])
        /\ P_trait \o Sanitize(PyStr(Get(AttributesOf(n)[k], K_trait_type,
                                         JStr(P_attribute \o DecStr(k - 1))))) = c}

\* C6 (amended): a dict entry without trait_type at zero-based index i
\* yields the column trait_attribute_<i>; the column holds the entry's value
\* (the empty string when it has none) unless a later entry is written to the
\* same column.
C6_TraitAttributeIndexColumn ==
    (FlattenReturned /\ WellFormedMetadata(nft)) =>
        \A j \in Untyped(nft) :
            LET c == P_trait \o P_attribute \o DecStr(j - 1)
            IN  /\ c \in DOMAIN flattened.row
                /\ LaterWriters(nft, j, c) = {} =>
                      flattened.row[c] = Get(AttributesOf(nft)[j], K_value, EmptyStr)

\* an entry missing trait_type at index 2 has produced trait_attribute_2
C6_Witness ==
    /\ FlattenReturned
    /\ 3 \in Untyped(nft)
    /\ (P_trait \o P_attribute \o <<"2">>) \in DOMAIN flattened.row
    /\ flattened.row[P_trait \o P_attribute \o <<"2">>] = JStr(<<"y">>)

\* the column an attribute entry is written to
ColumnOfEntry(n, j) ==
    P_trait \o Sanitize(PyStr(Get(AttributesOf(n)[j], K_trait_type,
                                  JStr(P_attribute \o DecStr(j - 1)))))

DictEntries(n) ==
    {j \in 1..Len(AttributesOf(n)) : IsDict(AttributesOf(n)[j])}

\* positions in metadata of the keys the residual loop emits
ExtraPositions(n) ==
    {j \in 1..Len(MetadataOf(n).items) :
        MetadataOf(n).items[j].key \notin ConsumedKeys}

ColumnOfExtra(n, j) == P_metadata \o Sanitize(MetadataOf(n).items[j].key)

TextOfExtra(n, j) ==
    LET v == MetadataOf(n).items[j].val
    IN  JStr(IF v.t \in {"dict", "list"} THEN JsonDumps(v) ELSE PyStr(v))

\* what the fixed columns are assigned from
FixedValue(n, c) ==
    LET own == Get(n, K_ownership, EmptyDict)
        md  == MetadataOf(n)
        roy == Get(n, K_royalty, EmptyDict)
        sup == Get(n, K_supply, EmptyDict)
    IN  CASE c = C_mint_address -> Get(n, K_id, EmptyStr)
          [] c = K_owner -> Get(own, K_owner, EmptyStr)
          [] c = K_frozen -> Get(own, K_frozen, JBool(FALSE))
          [] c = K_delegated -> Get(own, K_delegated, JBool(FALSE))
          [] c \in {K_name, K_symbol, K_description, K_image,
                    K_animation_url, K_external_url} -> Get(md, c, EmptyStr)
          [] c = C_royalty_percent -> Get(roy, K_percent, JInt(0))
          [] c = C_royalty_locked -> Get(roy, K_locked, JBool(FALSE))
          [] c = C_supply_print_max_supply -> Get(sup, K_print_max_supply, JInt(0))
          [] c = C_supply_print_current_supply ->
                Get(sup, K_print_current_supply, JInt(0))
          [] c = C_supply_edition_nonce -> Get(sup, K_edition_nonce, EmptyStr)

\* entries of grouping whose group_key is 'collection'
CollectionGroups(n) ==
    LET g == Get(n, K_grouping, EmptyList)
    IN  IF IsList(g)
        THEN {j \in 1..Len(g.items) :
                /\ IsDict(g.items[j])
                /\ Get(g.items[j], K_group_key, JNull) = JStr(S_collection)}
        ELSE {}
FirstCollectionValue(n) ==
    LET j == CHOOSE m \in CollectionGroups(n) : \A k \in CollectionGroups(n) : m <= k
    IN  Get(Get(n, K_grouping, EmptyList).items[j], K_group_value, EmptyStr)

\* C10: collisions of column names are resolved by last-write-wins and never
\* touch the fixed columns: a trait column holds the value of the last
\* attribute entry written to it, a metadata column the text of the last
\* extra key written to it, every fixed column keeps the value the record
\* gives it, and there are at most (attribute entries + extra keys)
\* data-dependent columns.
C10_LastWriteWins ==
    FlattenReturned =>
        LET row == flattened.row IN
        /\ \A j \in DictEntries(nft) :
              LET c == ColumnOfEntry(nft, j)
              IN  /\ c \in DOMAIN row
                  /\ (\A k \in DictEntries(nft) : k > j => ColumnOfEntry(nft, k) # c)
                        => row[c] = Get(AttributesOf(nft)[j], K_value, EmptyStr)
        /\ \A j \in ExtraPositions(nft) :
              LET c == ColumnOfExtra(nft, j)
              IN  /\ c \in DOMAIN row
                  /\ (\A k \in ExtraPositions(nft) : k > j => ColumnOfExtra(nft, k) # c)
                        => row[c] = TextOfExtra(nft, j)
        /\ \A c \in FixedColumns \ {C_collection_address} :
              c \in DOMAIN row /\ row[c] = FixedValue(nft, c)
        /\ C_collection_address \in DOMAIN row =>
              /\ CollectionGroups(nft) # {}
              /\ row[C_collection_address] = FirstCollectionValue(nft)
        /\ Cardinality((DOMAIN row) \ FixedColumns)
              <= Len(AttributesOf(nft)) + Cardinality(ExtraPositions(nft))

\* two attribute entries and two extra keys collide; the later ones are kept
C10_Witness ==
    /\ FlattenReturned
    /\ \E j, k \in DictEntries(nft) :
          /\ j < k
          /\ ColumnOfEntry(nft, j) = ColumnOfEntry(nft, k)
          /\ Get(AttributesOf(nft)[j], K_value, EmptyStr)
                # Get(AttributesOf(nft)[k], K_value, EmptyStr)
          /\ flattened.row[ColumnOfEntry(nft, k)]
                = Get(AttributesOf(nft)[k], K_value, EmptyStr)
    /\ \E j, k \in ExtraPositions(nft) :
          /\ j < k
          /\ ColumnOfExtra(nft, j) = ColumnOfExtra(nft, k)
          /\ TextOfExtra(nft, j) # TextOfExtra(nft, k)
          /\ flattened.row[ColumnOfExtra(nft, k)] = TextOfExtra(nft, k)
    /\ C_collection_address \in DOMAIN flattened.row

-----------------------------------------------------------------------------
(* Properties of the sanitisation *)

\* C7: sanitisation is idempotent: sanitising its own result changes nothing.
C7_SanitizeIdempotent ==
    pc = "resanitized" => clean_again = clean_trait

\* a string that loses characters, is trimmed and has a space replaced, and
\* whose result is stable
C7_Witness ==
    /\ pc = "resanitized"
    /\ \E k \in 1..Len(text) : text[k] = "!"
    /\ IsSpace(text[1])
    /\ \E k \in 1..Len(clean_trait) : clean_trait[k] = "_" /\ text[k + 1] = " "
    /\ clean_again = clean_trait
    /\ clean_trait # text

\* the allowed characters of s, without the whitespace around them
Trimmed(s) ==
    LET allowed == SelectSeq(s, LAMBDA c : IsWord(c) \/ IsSpace(c) \/ c = "-")
        solid   == {k \in 1..Len(allowed) : ~IsSpace(allowed[k])}
    IN  IF solid = {} THEN <<>>
        ELSE SubSeq(allowed,
                    CHOOSE a \in solid : \A k \in solid : a <= k,
                    CHOOSE b \in solid : \A k \in solid : b >= k)

\* C8 (as claimed): after stripping the disallowed characters and trimming,
\* every internal run of whitespace, of any length and character, becomes a
\* single underscore.
C8_RunsBecomeOneUnderscore ==
    pc \in {"sanitized", "resanitized"} =>
        clean_trait = CollapseRuns(Trimmed(text))

\* C8 (amended): after stripping the disallowed characters and trimming,
\* each space character becomes one underscore, so a run of n spaces yields n
\* underscores, and every other whitespace character inside the name stays.
C8_EachSpaceBecomesUnderscore ==
    pc \in {"sanitized", "resanitized"} =>
        LET kept == Trimmed(text)
        IN  /\ Len(clean_trait) = Len(kept)
            /\ \A k \in 1..Len(kept) :
                  clean_trait[k] = IF kept[k] = " " THEN "_" ELSE kept[k]

\* two consecutive internal spaces have become two underscores
C8_Witness ==
    /\ pc = "sanitized"
    /\ text = <<"a", " ", " ", "-">>
    /\ clean_trait = <<"a", "_", "_", "-">>

-----------------------------------------------------------------------------
(* filter_nfts_by_year *)

\* year_pattern with 202[0-9] as its last alternative
YearPatternMatchWholeDecade(s) ==
    /\ Len(s) >= 4
    /\ \/ s[1] = "1" /\ s[2] = "9" /\ s[3] = "9" /\ IsDigit(s[4])
       \/ s[1] = "2" /\ s[2] = "0" /\ s[3] \in {"0", "1", "2"} /\ IsDigit(s[4])

\* year_pattern.match(s), year_pattern = ^(199[0-9]|20[01][0-9]|202[0-5])
YearPatternMatch(s) ==
    /\ Len(s) >= 4
    /\ \/ s[1] = "1" /\ s[2] = "9" /\ s[3] = "9" /\ IsDigit(s[4])
       \/ s[1] = "2" /\ s[2] = "0" /\ s[3] \in {"0", "1"} /\ IsDigit(s[4])
       \/ s[1] = "2" /\ s[2] = "0" /\ s[3] = "2" /\ s[4] \in {"0", "1", "2", "3", "4", "5"}

NameRaised    == [raised |-> TRUE, name |-> JNull]
NameIs(v)     == [raised |-> FALSE, name |-> v]

\* main.py: name = nft.get('content', {}).get('metadata', {}).get('name')
\*                 or nft.get('content', {}).get('name') or nft.get('name', '')
ResolveNameRpc(n) ==
    LET content == Get(n, K_content, EmptyDict) IN
    IF ~IsDict(content) THEN NameRaised
    ELSE LET metadata == Get(content, K_metadata, EmptyDict) IN
         IF ~IsDict(metadata) THEN NameRaised
         ELSE NameIs(Or(Get(metadata, K_name, JNull),
                        Or(Get(content, K_name, JNull),
                           Get(n, K_name, EmptyStr))))

\* nft_extractor.py: the name, then the title, of content.metadata; then
\* content.name; then the top-level name.  A content that is present and not a
\* dict fails in "'metadata' in nft['content']" (TypeError), in
\* nft['content']['metadata'] or in nft['content'].get.
ResolveNameRest(n) ==
    LET content == Get(n, K_content, EmptyDict) IN
    IF HasKey(n, K_content) /\ ~IsDict(content) THEN NameRaised
    ELSE IF HasKey(content, K_metadata) /\ ~IsDict(Get(content, K_metadata, JNull))
    THEN NameRaised
    ELSE
    LET name1 == IF HasKey(n, K_content) /\ HasKey(content, K_metadata)
                 THEN LET metadata == Get(content, K_metadata, JNull)
                      IN  Or(Get(metadata, K_name, JNull),
                             Get(metadata, K_title, EmptyStr))
                 ELSE EmptyStr
        name2 == IF ~Truthy(name1) /\ HasKey(n, K_content)
                 THEN Get(content, K_name, EmptyStr)
                 ELSE name1
        name3 == IF ~Truthy(name2) THEN Get(n, K_name, EmptyStr) ELSE name2
    IN  NameIs(name3)

ResolveName(v, n) == IF v = "rpc" THEN ResolveNameRpc(n) ELSE ResolveNameRest(n)

\* if name and year_pattern.match(str(name))
Retains(v, n) ==
    LET r == ResolveName(v, n)
    IN  Truthy(r.name) /\ YearPatternMatch(PyStr(r.name))

\* NFTMetadataExtractor.filter_nfts_by_year(nfts); an exception raised for one
\* record leaves the function
filter_nfts_by_year(v, nfts) ==
    IF \E j \in 1..Len(nfts) : ResolveName(v, nfts[j]).raised
    THEN [raised |-> TRUE, nfts |-> <<>>]
    ELSE [raised |-> FALSE, nfts |-> SelectSeq(nfts, LAMBDA n : Retains(v, n))]

\* st.<kind>(message)
Say(kind, message) == Append(st, <<kind, message>>)

\* main(): filtered_nfts = extractor.filter_nfts_by_year(all_nfts)
MainFilter ==
    /\ pc = "filter"
    /\ LET r == filter_nfts_by_year(variant, all_nfts)
       IN  IF r.raised
           THEN pc' = "crashed" /\ UNCHANGED filtered_nfts
           ELSE pc' = "filtered" /\ filtered_nfts' = r.nfts
    /\ UNCHANGED <<envVars, sanitizeVars, flattenVars, asset_ids, idx, all_nfts,
                   http, exportVars, st>>

-----------------------------------------------------------------------------
(* filter_nfts_by_year applied to bounded input *)

MaxNameLen == 4
MaxList    == 3

YearAlphabet == {"0", "1", "2", "5", "6", "8", "9", " "}

S_edge   == <<"2", "0", "2", "5", " ", "E", "d", "g", "e">>
S_future == <<"2", "0", "2", "6", " ", "F", "u", "t", "u", "r", "e">>
S_wow    == <<"1", "9", "9", "9", "w", "o", "w">>

\* a record with the four places a name is looked up in
Named(mdName, title, cName, name) ==
    MkDict(<<
        KV(K_id, JStr(S_m1)),
        KV(K_content, MkDict(<<
            KV(K_metadata, MkDict(<<KV(K_name, mdName), KV(K_title, title)>>)),
            KV(K_name, cName)>>)),
        KV(K_name, name)>>)

SlotNames == {Absent, EmptyStr, JStr(S_edge), JStr(S_future)}
SlotRecords ==
    {Named(a, b, c, d) : a \in SlotNames, b \in SlotNames, c \in SlotNames,
                         d \in SlotNames}

YearRecords ==
    {Named(JStr(s), Absent, Absent, Absent) :
        s \in StringsUpTo(YearAlphabet, MaxNameLen)}

\* records the lists are made of: retained, excluded, named at the top level
\* only, unnamed, named by a title, named by a number, and one whose content
\* is null
CoreRecords ==
    {Named(JStr(S_edge), Absent, Absent, Absent),
     Named(JStr(S_future), Absent, Absent, Absent),
     JDict(<<KV(K_name, JStr(S_wow))>>),
     JDict(<<KV(K_id, JStr(S_m1)), KV(K_content, EmptyDict)>>),
     Named(Absent, JStr(S_edge), JStr(S_future), Absent),
     Named(JInt(2000), Absent, Absent, Absent),
     JDict(<<KV(K_content, JNull), KV(K_name, JStr(S_edge))>>)}

FilterInputs ==
    {<<r>> : r \in SlotRecords \cup YearRecords} \cup SeqsUpTo(CoreRecords, MaxList)

InitFilter ==
    /\ pc = "filter"
    /\ variant \in {"rpc", "rest"}
    /\ entry = "filter_nfts_by_year"
    /\ all_nfts \in FilterInputs
    /\ filtered_nfts = <<>>
    /\ asset_ids = <<>> /\ idx = 0 /\ http = <<>>
    /\ SanitizeIdle /\ FlattenIdle /\ ExportIdle
    /\ st = <<>>

NextFilter == MainFilter

SpecFilter == InitFilter /\ [][NextFilter]_vars

-----------------------------------------------------------------------------
(* Properties of filter_nfts_by_year *)

\* s begins with four digits that read as a year from 1990 to 2025
BeginsWithYear(s) ==
    /\ Len(s) >= 4
    /\ \A k \in 1..4 : IsDigit(s[k])
    /\ LET d(k) == Ascii[s[k]] - 48
           year == 1000 * d(1) + 100 * d(2) + 10 * d(3) + d(4)
       IN  year >= 1990 /\ year <= 2025

\* the places a name is looked up in, in their order of precedence
NameCandidates(v, n) ==
    LET content  == Get(n, K_content, EmptyDict)
        metadata == Get(content, K_metadata, EmptyDict)
    IN  <<Get(metadata, K_name, JNull),
          IF v = "rest" THEN Get(metadata, K_title, JNull) ELSE JNull,
          Get(content, K_name, JNull),
          Get(n, K_name, JNull)>>

\* the first candidate that is not empty; the empty string when there is none
FirstNonEmpty(cands) ==
    LET full == {k \in 1..Len(cands) : Truthy(cands[k])}
    IN  IF full = {} THEN EmptyStr
        ELSE cands[CHOOSE k \in full : \A m \in full : k <= m]

HasYearName(v, n) ==
    LET name == FirstNonEmpty(NameCandidates(v, n))
    IN  Truthy(name) /\ BeginsWithYear(PyStr(name))

\* C4: the output of filter_nfts_by_year is the input with exactly the records
\* removed whose resolved name does not begin with a year from 1990 to 2025:
\* only records of the input, in their input order, each with a year name;
\* "2025 Edge" stays, "2026 Future" and a record without a name go.
C4_FilterIsYearSubsequence ==
    pc = "filtered" =>
        /\ filtered_nfts = SelectSeq(all_nfts, LAMBDA n : HasYearName(variant, n))
        /\ \A j \in 1..Len(filtered_nfts) :
              /\ \E k \in 1..Len(all_nfts) : all_nfts[k] = filtered_nfts[j]
              /\ HasYearName(variant, filtered_nfts[j])

\* a list of three: "1999wow" and "2025 Edge" are kept in their order,
\* "2026 Future" between them is dropped
C4_Witness ==
    /\ pc = "filtered"
    /\ all_nfts = <<JDict(<<KV(K_name, JStr(S_wow))>>),
                    Named(JStr(S_future), Absent, Absent, Absent),
                    Named(JStr(S_edge), Absent, Absent, Absent)>>
    /\ filtered_nfts = <<JDict(<<KV(K_name, JStr(S_wow))>>),
                         Named(JStr(S_edge), Absent, Absent, Absent)>>

-----------------------------------------------------------------------------
(* export_to_csv *)

\* a <= b for Python strings: code point by code point, a prefix first
RECURSIVE StrLeq(_, _)
StrLeq(a, b) ==
    IF a = <<>> THEN TRUE
    ELSE IF b = <<>> THEN FALSE
    ELSE IF Head(a) = Head(b) THEN StrLeq(Tail(a), Tail(b))
    ELSE Ascii[Head(a)] < Ascii[Head(b)]

\* sorted(fields)
RECURSIVE Sorted(_)
Sorted(fields) ==
    IF fields = {} THEN <<>>
    ELSE LET least == CHOOSE a \in fields : \A b \in fields : StrLeq(a, b)
         IN  <<least>> \o Sorted(fields \ {least})

\* what csv.writer writes for a value: nothing for None, str(v) otherwise
CsvText(v) == IF v.t = "null" THEN <<>> ELSE PyStr(v)

\* a row written with its own fields only, the absent ones skipped
RowLineOwnFields(fields, row) ==
    LET own == SelectSeq(fields, LAMBDA f : f \in DOMAIN row)
    IN  [k \in 1..Len(own) |-> CsvText(row[own[k]])]

\* row = {field: nft.get(field, '') for field in fieldnames}; writer.writerow(row)
RowLine(fields, row) ==
    [k \in 1..Len(fields) |->
        IF fields[k] \in DOMAIN row THEN CsvText(row[fields[k]]) ELSE <<>>]

\* the flatten loop stops after the first record
FirstFlattened == flattened_nfts # <<>>

\* for nft in nfts: ... has gone through all of nfts (main passes filtered_nfts)
AllFlattened == Len(flattened_nfts) = Len(filtered_nfts)

\* datetime.now().strftime("%Y%m%d_%H%M%S"), two instants
Timestamps ==
    {<<"2", "0", "2", "5", "0", "1", "0", "1", "_", "0", "0", "0", "0", "0", "0">>,
     <<"2", "0", "2", "5", "0", "1", "0", "1", "_", "0", "0", "0", "0", "0", "1">>}
\* f"nft_metadata_{timestamp}.csv"; the dot is written as in the source
DefaultFilename(timestamp) ==
    JStr(P_metadata_file \o timestamp \o <<".", "c", "s", "v">>)

\* export_to_csv without its first test: an empty list is exported as well
ExportEnterUnguarded ==
    /\ pc = "export"
    /\ \E timestamp \in Timestamps : filename' = DefaultFilename(timestamp)
    /\ pc' = "flatten_loop"
    /\ UNCHANGED <<envVars, sanitizeVars, flattenVars, fetchVars, filtered_nfts,
                   flattened_nfts, all_fields, fieldnames, csvfile, st>>

\* export_to_csv, up to the loop: nothing to export, or the file name
ExportEnter ==
    /\ pc = "export"
    /\ IF filtered_nfts = <<>>
       THEN /\ st' = Say("warning", "No NFTs to export")
            /\ filename' = JNull
            /\ pc' = "exported"
       ELSE /\ \E timestamp \in Timestamps : filename' = DefaultFilename(timestamp)
            /\ pc' = "flatten_loop"
            /\ UNCHANGED st
    /\ UNCHANGED <<flattened_nfts, all_fields>>
    /\ UNCHANGED <<envVars, sanitizeVars, flattenVars, fetchVars, filtered_nfts,
                   fieldnames, csvfile>>

\* one turn of: flattened = self.flatten_metadata(nft);
\* flattened_nfts.append(flattened); all_fields.update(flattened.keys())
ExportFlatten ==
    /\ pc = "flatten_loop"
    /\ ~AllFlattened
    /\ LET r == flatten_metadata(filtered_nfts[Len(flattened_nfts) + 1])
       IN  IF r.raised
           THEN pc' = "crashed" /\ UNCHANGED <<flattened_nfts, all_fields>>
           ELSE /\ flattened_nfts' = Append(flattened_nfts, r.row)
                /\ all_fields' = all_fields \cup DOMAIN r.row
                /\ UNCHANGED pc
    /\ UNCHANGED <<envVars, sanitizeVars, flattenVars, fetchVars, filtered_nfts,
                   fieldnames, csvfile, filename, st>>

\* fieldnames = sorted(all_fields)
ExportSort ==
    /\ pc = "flatten_loop"
    /\ AllFlattened
    /\ fieldnames' = Sorted(all_fields)
    /\ pc' = "open"
    /\ UNCHANGED <<envVars, sanitizeVars, flattenVars, fetchVars, filtered_nfts,
                   flattened_nfts, all_fields, csvfile, filename, st>>

\* open(filename, 'w', ...): the file exists from here on, and is empty
ExportOpen ==
    /\ pc = "open"
    /\ csvfile' = [exists |-> TRUE, header |-> <<>>, rows |-> <<>>]
    /\ pc' = "write_header"
    /\ UNCHANGED <<envVars, sanitizeVars, flattenVars, fetchVars, filtered_nfts,
                   flattened_nfts, all_fields, fieldnames, filename, st>>

\* writer.writeheader()
ExportWriteHeader ==
    /\ pc = "write_header"
    /\ csvfile' = [csvfile EXCEPT !.header = fieldnames]
    /\ pc' = "write_rows"
    /\ UNCHANGED <<envVars, sanitizeVars, flattenVars, fetchVars, filtered_nfts,
                   flattened_nfts, all_fields, fieldnames, filename, st>>

\* one turn of: for nft in flattened_nfts: writer.writerow(row)
ExportWriteRow ==
    /\ pc = "write_rows"
    /\ Len(csvfile.rows) < Len(flattened_nfts)
    /\ csvfile' = [csvfile EXCEPT !.rows =
                      Append(@, RowLine(fieldnames,
                                        flattened_nfts[Len(csvfile.rows) + 1]))]
    /\ UNCHANGED <<pc, envVars, sanitizeVars, flattenVars, fetchVars,
                   filtered_nfts, flattened_nfts, all_fields, fieldnames,
                   filename, st>>

\* return filename
ExportReturn ==
    /\ pc = "write_rows"
    /\ Len(csvfile.rows) = Len(flattened_nfts)
    /\ pc' = "exported"
    /\ UNCHANGED <<envVars, sanitizeVars, flattenVars, fetchVars, filtered_nfts,
                   exportVars, st>>

NextExport ==
    \/ ExportEnter
    \/ ExportFlatten
    \/ ExportSort
    \/ ExportOpen
    \/ ExportWriteHeader
    \/ ExportWriteRow
    \/ ExportReturn

-----------------------------------------------------------------------------
(* The indexing API, and the fetch methods *)

S_m2 == <<"m", "2">>
S_m3 == <<"m", "3">>
S_m4 == <<"m", "4">>
S_rarity == <<"R", "a", "r", "i", "t", "y">>
S_rare   == <<"R", "a", "r", "e">>

AssetIdSet == {S_m1, S_m2, S_m3, S_m4}

\* what the API holds for each id: a 2025 record with a trait and a collection,
\* a 2026 record, a record named at the top level only with an extra metadata
\* key, and a 2025 record whose royalty is null
Ledger(id) ==
    CASE id = S_m1 ->
            JDict(<<
                KV(K_id, JStr(S_m1)),
                KV(K_ownership, JDict(<<KV(K_owner, JStr(S_wallet))>>)),
                KV(K_content, JDict(<<
                    KV(K_metadata, JDict(<<
                        KV(K_name, JStr(S_edge)),
                        KV(K_attributes, JList(<<
                            JDict(<<KV(K_trait_type, JStr(S_rarity)),
                                    KV(K_value, JStr(S_rare))>>)>>))>>))>>)),
                KV(K_grouping, JList(<<
                    JDict(<<KV(K_group_key, JStr(S_collection)),
                            KV(K_group_value, JStr(S_coll))>>)>>))>>)
      [] id = S_m2 ->
            JDict(<<
                KV(K_id, JStr(S_m2)),
                KV(K_content, JDict(<<
                    KV(K_metadata, JDict(<<KV(K_name, JStr(S_future))>>))>>))>>)
      [] id = S_m3 ->
            JDict(<<
                KV(K_id, JStr(S_m3)),
                KV(K_content, JDict(<<
                    KV(K_metadata, JDict(<<
                        KV(<<"k", "!">>, JDict(<<KV(<<"a">>, JInt(1))>>)),
                        KV(K_attributes, JList(<<
                            JDict(<<KV(K_value, JNull)>>)>>))>>))>>)),
                KV(K_name, JStr(S_wow))>>)
      [] id = S_m4 ->
            JDict(<<
                KV(K_id, JStr(S_m4)),
                KV(K_content, JDict(<<
                    KV(K_metadata, JDict(<<KV(K_name, JStr(S_edge))>>))>>)),
                KV(K_royalty, JNull)>>)

MaxAssets == 2

\* how a request can end: a response with the expected body, a response
\* without the "result" member, a transport failure (ConnectionError,
\* Timeout), an HTTP error status (raise_for_status), or a body of another
\* shape (result null, an item without 'id')
ListOutcomes   == {"ok", "transport", "http", "malformed"}
DetailOutcomes == {"ok", "noresult", "transport", "http"}
RestOutcomes   == {"ok", "transport", "http"}

\* an except clause for ConnectionError only
CaughtTransportOnly(outcome) == outcome = "transport"

\* except requests.exceptions.RequestException
Caught(outcome) == outcome \in {"transport", "http"}

\* try: ... return <body>  except RequestException as e: st.error(...); return <empty>
FetchResult(outcome, body, empty) ==
    IF outcome \in {"ok", "noresult"}
    THEN [raised |-> FALSE, reported |-> FALSE, value |-> body]
    ELSE IF Caught(outcome)
    THEN [raised |-> FALSE, reported |-> TRUE, value |-> empty]
    ELSE [raised |-> TRUE, reported |-> FALSE, value |-> empty]

\* NFTMetadataExtractor.get_assets_by_owner; ids is what the API lists
get_assets_by_owner(outcome, ids) ==
    FetchResult(outcome, JList([j \in 1..Len(ids) |-> JStr(ids[j])]), EmptyList)

\* NFTMetadataExtractor.get_asset_by_id: response.json().get("result", {})
get_asset_by_id(outcome, asset_id) ==
    FetchResult(outcome,
                IF outcome = "ok" THEN Ledger(asset_id) ELSE EmptyDict,
                EmptyDict)

\* NFTMetadataExtractor.get_nft_assets (nft_extractor.py)
get_nft_assets(outcome, ids) ==
    FetchResult(outcome, JList([j \in 1..Len(ids) |-> Ledger(ids[j])]), EmptyList)

\* the request, as it ended
Request(op, arg, outcome, r) ==
    [op |-> op, arg |-> arg, outcome |-> outcome, raised |-> r.raised,
     value |-> r.value]

-----------------------------------------------------------------------------
(* main() *)

\* if st.button("Fetch NFTs"): if not api_key or not wallet_address: ...
MainStart ==
    /\ pc = "start"
    /\ \E given \in BOOLEAN :
          IF given
          THEN /\ pc' = IF variant = "rpc" THEN "get_assets_by_owner"
                                           ELSE "get_nft_assets"
               /\ UNCHANGED st
          ELSE /\ st' = Say("error", "Please provide both API Key and Wallet Address.")
               /\ pc' = "done"
    /\ UNCHANGED <<envVars, sanitizeVars, flattenVars, fetchVars, filtered_nfts,
                   exportVars>>

\* main.py: asset_ids = extractor.get_assets_by_owner()
MainGetAssetsByOwner ==
    /\ pc = "get_assets_by_owner"
    /\ \E outcome \in ListOutcomes, ids \in SeqsUpTo(AssetIdSet, MaxAssets) :
          LET r == get_assets_by_owner(outcome, ids)
          IN  /\ http' = Append(http, Request("getAssetsByOwner", <<>>, outcome, r))
              /\ st' = IF r.reported
                       THEN Say("error", "Error fetching asset IDs")
                       ELSE st
              /\ IF r.raised
                 THEN pc' = "crashed" /\ UNCHANGED asset_ids
                 ELSE /\ pc' = "got_asset_ids"
                      /\ asset_ids' = [j \in 1..Len(r.value.items) |->
                                          r.value.items[j].s]
    /\ UNCHANGED <<envVars, sanitizeVars, flattenVars, idx, all_nfts,
                   filtered_nfts, exportVars>>

\* main.py: if not asset_ids: st.warning(...); return
MainCheckAssetIds ==
    /\ pc = "got_asset_ids"
    /\ IF asset_ids = <<>>
       THEN /\ st' = Say("warning", "No assets found or an error occurred.")
            /\ pc' = "done"
            /\ UNCHANGED idx
       ELSE /\ pc' = "get_asset_by_id"
            /\ idx' = 1
            /\ UNCHANGED st
    /\ UNCHANGED <<envVars, sanitizeVars, flattenVars, asset_ids, all_nfts, http,
                   filtered_nfts, exportVars>>

\* main.py, one turn of: asset = extractor.get_asset_by_id(asset_id);
\* if asset: all_nfts.append(asset)
MainGetAssetById ==
    /\ pc = "get_asset_by_id"
    /\ idx <= Len(asset_ids)
    /\ \E outcome \in DetailOutcomes :
          LET r == get_asset_by_id(outcome, asset_ids[idx])
          IN  /\ http' = Append(http, Request("getAsset", asset_ids[idx], outcome, r))
              /\ st' = IF r.reported THEN Say("error", "Error fetching asset") ELSE st
              /\ IF r.raised
                 THEN pc' = "crashed" /\ UNCHANGED <<all_nfts, idx>>
                 ELSE /\ all_nfts' = IF Truthy(r.value)
                                     THEN Append(all_nfts, r.value)
                                     ELSE all_nfts
                      /\ idx' = idx + 1
                      /\ UNCHANGED pc
    /\ UNCHANGED <<envVars, sanitizeVars, flattenVars, asset_ids, filtered_nfts,
                   exportVars>>

\* main.py: the loop is over; st.success(f"Fetched {len(all_nfts)} assets. ...")
MainFetched ==
    /\ pc = "get_asset_by_id"
    /\ idx > Len(asset_ids)
    /\ st' = Say("success", "Fetched assets. Filtering by year 1990-2025...")
    /\ pc' = "filter"
    /\ UNCHANGED <<envVars, sanitizeVars, flattenVars, fetchVars, filtered_nfts,
                   exportVars>>

\* nft_extractor.py: nfts = extractor.get_nft_assets()
MainGetNftAssets ==
    /\ pc = "get_nft_assets"
    /\ \E outcome \in RestOutcomes, ids \in SeqsUpTo(AssetIdSet, MaxAssets) :
          LET r == get_nft_assets(outcome, ids)
          IN  /\ http' = Append(http, Request("nfts", <<>>, outcome, r))
              /\ st' = IF r.reported THEN Say("error", "Error fetching NFTs") ELSE st
              /\ IF r.raised
                 THEN pc' = "crashed" /\ UNCHANGED all_nfts
                 ELSE pc' = "got_nfts" /\ all_nfts' = r.value.items
    /\ UNCHANGED <<envVars, sanitizeVars, flattenVars, asset_ids, idx,
                   filtered_nfts, exportVars>>

\* nft_extractor.py: if not nfts: st.warning(...); return
\*                   st.success(f"Found {len(nfts)} NFTs. ...")
MainCheckNfts ==
    /\ pc = "got_nfts"
    /\ IF all_nfts = <<>>
       THEN /\ st' = Say("warning", "No NFTs found or an error occurred.")
            /\ pc' = "done"
       ELSE /\ st' = Say("success", "Found NFTs. Filtering by year 1990-2025...")
            /\ pc' = "filter"
    /\ UNCHANGED <<envVars, sanitizeVars, flattenVars, fetchVars, filtered_nfts,
                   exportVars>>

\* if not filtered_nfts: st.warning(...); return
\* st.success(f"{len(filtered_nfts)} NFTs matched.")
MainCheckFiltered ==
    /\ pc = "filtered"
    /\ IF filtered_nfts = <<>>
       THEN /\ st' = Say("warning",
                         "No NFTs found with names starting with years 1990-2025.")
            /\ pc' = "done"
       ELSE /\ st' = Say("success", "NFTs matched.")
            /\ pc' = "export"
    /\ UNCHANGED <<envVars, sanitizeVars, flattenVars, fetchVars, filtered_nfts,
                   exportVars>>

\* filename = extractor.export_to_csv(filtered_nfts)
\* if filename: st.success(f"Export complete: {filename}"); ...
MainExported ==
    /\ pc = "exported"
    /\ entry = "main"
    /\ st' = IF Truthy(filename) THEN Say("success", "Export complete") ELSE st
    /\ pc' = "done"
    /\ UNCHANGED <<envVars, sanitizeVars, flattenVars, fetchVars, filtered_nfts,
                   exportVars>>

-----------------------------------------------------------------------------
(* The runs: main() of either file, and export_to_csv called on its own *)

MaxExport == 2

\* the records of the API and one more, whose attribute has no trait_type
ExportAssets ==
    {Ledger(id) : id \in AssetIdSet}
    \cup {AssetWith(<<JDict(<<KV(K_value, JInt(7))>>)>>, <<>>)}

InitMain ==
    /\ pc = "start"
    /\ entry = "main"
    /\ filtered_nfts = <<>>

InitExport ==
    /\ pc = "export"
    /\ entry = "export_to_csv"
    /\ filtered_nfts \in SeqsUpTo(ExportAssets, MaxExport)

Init ==
    /\ variant \in {"rpc", "rest"}
    /\ InitMain \/ InitExport
    /\ SanitizeIdle /\ FlattenIdle /\ FetchIdle /\ ExportIdle
    /\ st = <<>>

Next ==
    \/ MainStart
    \/ MainGetAssetsByOwner
    \/ MainCheckAssetIds
    \/ MainGetAssetById
    \/ MainFetched
    \/ MainGetNftAssets
    \/ MainCheckNfts
    \/ MainFilter
    \/ MainCheckFiltered
    \/ NextExport
    \/ MainExported

Spec == Init /\ [][Next]_vars

-----------------------------------------------------------------------------
(* Properties of the runs *)

Failures == {"transport", "http"}

\* the last streamlit call was a warning
EndsWithWarning == st # <<>> /\ st[Len(st)][1] = "warning"

\* the number of calls of st.<kind>
Said(kind) == Cardinality({k \in 1..Len(st) : st[k][1] = kind})

\* C2: an empty result at any stage ends the run with a warning and without a
\* CSV file; export_to_csv called with an empty list returns None, warns and
\* opens no file; a file exists only in runs where the fetch returned at least
\* one asset and the filter retained at least one record.
C2_NoFileFromEmptyStage ==
    /\ csvfile.exists =>
          /\ filtered_nfts # <<>>
          /\ entry = "main" => all_nfts # <<>>
          /\ (entry = "main" /\ variant = "rpc") => asset_ids # <<>>
    /\ (entry = "main" /\ pc = "done" /\ http # <<>>
            /\ (all_nfts = <<>> \/ filtered_nfts = <<>>)) =>
          /\ ~csvfile.exists
          /\ EndsWithWarning
          /\ Said("warning") = 1
    /\ (entry = "export_to_csv" /\ filtered_nfts = <<>> /\ pc # "export") =>
          /\ pc = "exported"
          /\ filename = JNull
          /\ ~csvfile.exists
          /\ st = <<<<"warning", "No NFTs to export">>>>

\* assets were fetched, none has a year name: a warning, and no file
C2_Witness ==
    /\ entry = "main"
    /\ pc = "done"
    /\ all_nfts # <<>>
    /\ filtered_nfts = <<>>
    /\ ~csvfile.exists
    /\ EndsWithWarning

\* C3: a fetch that meets a transport or HTTP failure does not raise, reports
\* the error and returns the empty list (the empty record for a detail call);
\* no request is repeated; the caller goes on: an empty list ends the run with
\* a warning and no file, an empty record is skipped and the loop continues.
C3_FetchFailsSoft ==
    /\ \A k \in 1..Len(http) :
          http[k].outcome \in Failures =>
             /\ ~http[k].raised
             /\ http[k].value = IF http[k].op = "getAsset" THEN EmptyDict
                                                            ELSE EmptyList
    /\ Said("error") >=
          Cardinality({k \in 1..Len(http) : http[k].outcome \in Failures})
    /\ \A k \in 1..Len(http) :
          IF k = 1
          THEN http[k].op = IF variant = "rpc" THEN "getAssetsByOwner" ELSE "nfts"
          ELSE /\ variant = "rpc"
               /\ http[k].op = "getAsset"
               /\ k - 1 <= Len(asset_ids)
               /\ http[k].arg = asset_ids[k - 1]
               /\ idx >= k
    /\ (http # <<>> /\ http[1].outcome \in Failures) =>
          /\ pc \in {"got_asset_ids", "got_nfts", "done"}
          /\ pc = "done" => (EndsWithWarning /\ ~csvfile.exists)
    /\ Len(all_nfts) =
          IF variant = "rpc"
          THEN Cardinality({k \in 2..Len(http) : Truthy(http[k].value)})
          ELSE IF http # <<>> /\ ~http[1].raised THEN Len(http[1].value.items)
          ELSE 0

\* the first detail call met an HTTP error and the second one succeeded; the
\* run went on and exported the second record
C3_Witness ==
    /\ entry = "main"
    /\ variant = "rpc"
    /\ Len(http) = 3
    /\ http[2].outcome = "http"
    /\ http[3].outcome = "ok"
    /\ Len(all_nfts) = 1
    /\ pc = "done"
    /\ csvfile.exists
    /\ Said("error") = 1

\* a < b for strings, by the first position where they differ
StrictlyBefore(a, b) ==
    \E k \in 1..Len(b) :
        /\ k - 1 <= Len(a)
        /\ \A m \in 1..(k - 1) : a[m] = b[m]
        /\ k > Len(a) \/ Ascii[a[k]] < Ascii[b[k]]

\* the FlatRows of the records handed to export_to_csv
FlatRows == [j \in 1..Len(filtered_nfts) |-> flatten_metadata(filtered_nfts[j]).row]

HeaderWritten == csvfile.exists /\ pc # "write_header"

\* C5: the header written is the sorted union of the keys of all FlatRows, and
\* every row written has len(header) fields, the empty string in each field
\* its FlatRow lacks; when export_to_csv returns there is one row per record.
C5_HeaderCompleteness ==
    HeaderWritten =>
        LET header == csvfile.header
            keys   == UNION {DOMAIN FlatRows[j] : j \in 1..Len(filtered_nfts)}
        IN  /\ {header[k] : k \in 1..Len(header)} = keys
            /\ \A a, b \in 1..Len(header) :
                  a < b => StrictlyBefore(header[a], header[b])
            /\ \A j \in 1..Len(csvfile.rows) :
                  /\ Len(csvfile.rows[j]) = Len(header)
                  /\ \A k \in 1..Len(header) :
                        csvfile.rows[j][k] =
                           IF header[k] \in DOMAIN FlatRows[j]
                           THEN CsvText(FlatRows[j][header[k]])
                           ELSE <<>>
            /\ pc \in {"exported", "done"} =>
                  Len(csvfile.rows) = Len(filtered_nfts)

\* two records with different key sets were exported: a field of the header
\* that the second row lacks is empty in its line
C5_Witness ==
    /\ pc = "exported"
    /\ csvfile.exists
    /\ Len(csvfile.rows) = 2
    /\ DOMAIN FlatRows[1] # DOMAIN FlatRows[2]
    /\ \E k \in 1..Len(csvfile.header) :
          /\ csvfile.header[k] \in DOMAIN FlatRows[1]
          /\ csvfile.header[k] \notin DOMAIN FlatRows[2]
          /\ csvfile.rows[1][k] # <<>>
          /\ csvfile.rows[2][k] = <<>>

\* C9: in the JSON-RPC variant every detail fetch has ended before filtering
\* begins, and in both variants every record has been flattened before the
\* header is computed and before the file is opened or written.
C9_StageOrdering ==
    /\ (entry = "main" /\ variant = "rpc"
            /\ (pc \in {"filter", "filtered", "export", "flatten_loop", "open",
                        "write_header", "write_rows", "exported"}
                \/ filtered_nfts # <<>>)) =>
          /\ Len(http) = 1 + Len(asset_ids)
          /\ \A k \in 1..Len(asset_ids) :
                http[k + 1].op = "getAsset" /\ http[k + 1].arg = asset_ids[k]
    /\ (fieldnames # <<>> \/ csvfile.exists
            \/ pc \in {"open", "write_header", "write_rows"}) =>
          /\ Len(flattened_nfts) = Len(filtered_nfts)
          /\ \A j \in 1..Len(filtered_nfts) : flattened_nfts[j] = FlatRows[j]
          /\ all_fields = UNION {DOMAIN FlatRows[j] : j \in 1..Len(filtered_nfts)}

\* two ids were listed and fetched, both records retained and flattened, and
\* the first of the two lines is written
C9_Witness ==
    /\ entry = "main"
    /\ variant = "rpc"
    /\ Len(asset_ids) = 2
    /\ Len(http) = 3
    /\ Len(filtered_nfts) = 2
    /\ Len(flattened_nfts) = 2
    /\ pc = "write_rows"
    /\ Len(csvfile.rows) = 1

=============================================================================
